---- MODULE Spec2Model ----
(***************************************************************************)
(* Parking-slip pipeline of "Task 06": the Flask service (app.py) and the  *)
(* Streamlit page (main.py).  Strings are sequences of one-character       *)
(* strings, so that cleaning, upper-casing and joining are computed as     *)
(* Python computes them.  Confidences are integers in units of 1e-5        *)
(* (20000 stands for 0.2).                                                 *)
(***************************************************************************)
EXTENDS Integers, Sequences, FiniteSets, TLC

(* ------------------------------ bounds --------------------------------- *)
MaxChars == 3
MaxSpans == 2
MaxDim == 3
MaxPad == 5
MaxOver == 1
MaxBoxes == 2
MaxClock == 1

(* --------------------------- characters -------------------------------- *)
\* The recognizer is built for English only (app.py:28, main.py:19), so the
\* texts it emits are ASCII letters, digits, punctuation and spaces.
LowerChars == <<"a","b","c","d","e","f","g","h","i","j","k","l","m","n","o","p","q","r","s","t","u","v","w","x","y","z">>
UpperChars == <<"A","B","C","D","E","F","G","H","I","J","K","L","M","N","O","P","Q","R","S","T","U","V","W","X","Y","Z">>
DigitChars == <<"0","1","2","3","4","5","6","7","8","9">>

Range(s) == {s[i] : i \in 1..Len(s)}

\* str.isalnum on one ASCII character
isalnum(c) == c \in Range(LowerChars) \cup Range(UpperChars) \cup Range(DigitChars)

\* str.upper on one ASCII character
upper(c) ==
  IF \E i \in 1..Len(LowerChars) : LowerChars[i] = c
  THEN UpperChars[CHOOSE i \in 1..Len(LowerChars) : LowerChars[i] = c]
  ELSE c

\* a cleaning that lets spaces through
cleaned_text_keep_spaces(text) ==
  LET kept == SelectSeq(text, LAMBDA ch : isalnum(ch) \/ ch = " ")
  IN [i \in 1..Len(kept) |-> upper(kept[i])]

\* the cleaning with the upper-casing left out
cleaned_text_no_upper(text) == SelectSeq(text, isalnum)

\* ''.join(filter(str.isalnum, text)).upper()
cleaned_text(text) ==
  LET kept == SelectSeq(text, isalnum)
  IN [i \in 1..Len(kept) |-> upper(kept[i])]

\* sep.join(parts) for a list of strings
RECURSIVE join(_, _)
join(sep, parts) ==
  IF Len(parts) = 0 THEN <<>>
  ELSE IF Len(parts) = 1 THEN parts[1]
  ELSE parts[1] \o sep \o join(sep, Tail(parts))

(* ----------------------------- sentinels ------------------------------- *)
NoTextDetected == <<"N","o"," ","t","e","x","t"," ","d","e","t","e","c","t","e","d">>
CropError == <<"C","r","o","p"," ","E","r","r","o","r">>
OcrFailedNoText == <<"O","C","R"," ","f","a","i","l","e","d"," ","(","E","a","s","y","O","C","R"," ","f","o","u","n","d"," ","n","o"," ","t","e","x","t",")">>
OcrFailedFiltered == <<"O","C","R"," ","f","a","i","l","e","d"," ","(","L","o","w"," ","c","o","n","f","i","d","e","n","c","e"," ","o","r"," ","n","o","n","-","a","l","p","h","a","n","u","m","e","r","i","c",")">>
ProcessingError == <<"P","r","o","c","e","s","s","i","n","g"," ","E","r","r","o","r">>
NoPlateDetected == <<"N","o"," ","p","l","a","t","e"," ","d","e","t","e","c","t","e","d">>

(* --------------------------- token filter ------------------------------ *)
\* 0.2 in units of 1e-5
confidence_threshold == 20000

\* strict comparison in place of >=
passes_threshold_strict(conf) == conf > confidence_threshold

\* conf >= 0.2 (app.py:59), prob >= confidence_threshold (main.py:112)
passes_threshold(conf) == conf >= confidence_threshold

\* a comprehension without the confidence test
RECURSIVE texts_unfiltered(_)
texts_unfiltered(raw) ==
  IF Len(raw) = 0 THEN <<>>
  ELSE <<cleaned_text(raw[1].text)>> \o texts_unfiltered(Tail(raw))

\* the list comprehension of app.py:56-60: one entry per span that passes
\* the threshold, possibly empty
RECURSIVE texts(_)
texts(raw) ==
  IF Len(raw) = 0 THEN <<>>
  ELSE (IF passes_threshold(raw[1].conf)
        THEN <<cleaned_text(raw[1].text)>> ELSE <<>>) \o texts(Tail(raw))

NonEmptyStr(t) == Len(t) > 0

\* the sentinel fallback left out
service_reading_no_fallback(raw) ==
  join(<<" ">>, SelectSeq(texts(raw), NonEmptyStr))

\* app.py:61: " ".join(t for t in texts if t) or "No text detected"
service_reading(raw) ==
  LET joined == join(<<" ">>, SelectSeq(texts(raw), NonEmptyStr))
  IN IF Len(joined) > 0 THEN joined ELSE NoTextDetected

\* the loop of main.py:110-117, accumulating into filtered_texts
RECURSIVE filtered_texts(_, _)
filtered_texts(ocr_results, acc) ==
  IF Len(ocr_results) = 0 THEN acc
  ELSE LET prob == ocr_results[1].conf
           cleaned == cleaned_text(ocr_results[1].text)
       IN IF passes_threshold(prob) /\ Len(cleaned) > 0
          THEN filtered_texts(Tail(ocr_results), Append(acc, cleaned))
          ELSE filtered_texts(Tail(ocr_results), acc)

\* one diagnostic value for both ways of ending without a token
interactive_reading_collapsed(ocr_results) ==
  LET ft == filtered_texts(ocr_results, <<>>)
  IN IF Len(ft) > 0 THEN join(<<" ">>, ft) ELSE OcrFailedFiltered

\* main.py:104-124
interactive_reading(ocr_results) ==
  IF Len(ocr_results) = 0 THEN OcrFailedNoText
  ELSE LET ft == filtered_texts(ocr_results, <<>>)
       IN IF Len(ft) > 0 THEN join(<<" ">>, ft) ELSE OcrFailedFiltered

(* -------------------------- region extractor -------------------------- *)
Max(a, b) == IF a >= b THEN a ELSE b
Min(a, b) == IF a <= b THEN a ELSE b

\* a[start:stop] on an axis of length n: negative indices count from the
\* end, out-of-range indices are clipped; the result is the index range
\* <<lo, hi>> (hi exclusive) that is read
slice_indices(start, stop, n) ==
  LET norm(v) == IF v < 0 THEN Max(0, v + n) ELSE Min(v, n)
  IN <<norm(start), norm(stop)>>

slice_len(start, stop, n) ==
  LET r == slice_indices(start, stop, n) IN Max(0, r[2] - r[1])

\* the upper bounds not clamped to the image shape
crop_bounds_unclamped(shape, box, pad) ==
  [y1_pad |-> Max(0, box[2] - pad), y2_pad |-> box[4] + pad,
   x1_pad |-> Max(0, box[1] - pad), x2_pad |-> box[3] + pad]

\* app.py:46-49 and main.py:87-90; shape = <<height, width>>,
\* box = <<x1, y1, x2, y2>>
crop_bounds(shape, box, pad) ==
  [y1_pad |-> Max(0, box[2] - pad), y2_pad |-> Min(shape[1], box[4] + pad),
   x1_pad |-> Max(0, box[1] - pad), x2_pad |-> Min(shape[2], box[3] + pad)]

\* image_np[y1_pad:y2_pad, x1_pad:x2_pad]: the rows and columns read and
\* the number of pixels of the crop
crop_of(shape, box, pad) ==
  LET b == crop_bounds(shape, box, pad)
  IN [bounds |-> b,
      rows |-> slice_indices(b.y1_pad, b.y2_pad, shape[1]),
      cols |-> slice_indices(b.x1_pad, b.x2_pad, shape[2]),
      size |-> slice_len(b.y1_pad, b.y2_pad, shape[1])
               * slice_len(b.x1_pad, b.x2_pad, shape[2])]

\* pad = 4 (app.py:45)
pad == 4
\* padding = 2 (main.py:86)
padding == 2

\* app.py:50-62 after the crop: the reading for a crop and the spans the
\* recognizer gives for it
extract_text_reading(crop, raw) ==
  IF crop.size = 0 THEN CropError ELSE service_reading(raw)

\* main.py:94-124 after the crop
detect_and_ocr_reading(crop, ocr_results) ==
  IF crop.size = 0 THEN CropError ELSE interactive_reading(ocr_results)

(* ===================== the request pipelines =========================== *)
None == <<>>
StaticSlips == <<"/","s","t","a","t","i","c","/","s","l","i","p","s","/">>
AnnotatedName == <<"a","n","n","o","t","a","t","e","d","_","l","a","t","e","s","t",".","j","p","g">>
CropName == <<"c","r","o","p","_","l","a","t","e","s","t",".","j","p","g">>
SlipPrefix == <<"s","l","i","p","_">>
PngExt == <<".","p","n","g">>
Fee == <<"R","s","."," ","3","0",".","0","0">>
Active == <<"A","C","T","I","V","E">>

\* datetime.now() is read from a clock counted in whole seconds, which is all
\* the strftime patterns keep; %S prints the second as two digits
two_digits(n) == <<DigitChars[(n \div 10) + 1], DigitChars[(n % 10) + 1]>>
\* a file-name pattern that leaves the second out
strftime_file_no_seconds(t) ==
  <<"2","0","2","6","0","1","0","1","_","1","2","0","0","0","0">>

\* strftime('%Y%m%d_%H%M%S') (app.py:120)
strftime_file(t) ==
  <<"2","0","2","6","0","1","0","1","_","1","2","0","0">> \o two_digits(t)
\* strftime("%d %b %Y  %H:%M:%S") (app.py:104)
strftime_row(t) ==
  <<"0","1"," ","J","a","n"," ","2","0","2","6"," "," ","1","2",":","0","0",":">>
    \o two_digits(t)
\* strftime("%d %b %Y, %H:%M:%S") (app.py:174, main.py:209)
strftime_json(t) ==
  <<"0","1"," ","J","a","n"," ","2","0","2","6",","," ","1","2",":","0","0",":">>
    \o two_digits(t)

\* plate_text.replace(' ', '_')
replace_spaces(p) == [i \in 1..Len(p) |-> IF p[i] = " " THEN "_" ELSE p[i]]

\* a file name that leaves the plate out
slip_filename_no_plate(plate_text, entry_time) ==
  SlipPrefix \o strftime_file(entry_time) \o PngExt

\* app.py:120
slip_filename(plate_text, entry_time) ==
  SlipPrefix \o replace_spaces(plate_text) \o <<"_">> \o strftime_file(entry_time) \o PngExt

\* app.py:102-107
slip_rows(plate_text, entry_time) ==
  << <<"Vehicle Plate", plate_text>>,
     <<"Entry Time", strftime_row(entry_time)>>,
     <<"Parking Fee", Fee>>,
     <<"Status", Active>> >>

\* a detector that invents a box when it has no candidate
detect_plate_fallback(bxs) == IF Len(bxs) = 0 THEN <<0, 0, 1, 1>> ELSE bxs[1]

\* a selection that takes the last candidate
detect_plate_last(bxs) == IF Len(bxs) = 0 THEN None ELSE bxs[Len(bxs)]

\* app.py:36-39
detect_plate(bxs) == IF Len(bxs) = 0 THEN None ELSE bxs[1]

\* the no-plate answer sent as "not found"
no_plate_response_404 ==
  [status |-> 404, body |-> [error |-> "No number plate detected in image"]]

\* app.py:152
no_plate_response ==
  [status |-> 200, body |-> [error |-> "No number plate detected in image"]]

\* app.py:137, 141, 147
bad_request(msg) == [status |-> 400, body |-> [error |-> msg]]

\* an exception that leaves process(): Flask answers 500
server_error(what) == [status |-> 500, body |-> [exception |-> what]]

\* app.py:172-179
success_response(plate_text, entry_time, slip_file) ==
  [status |-> 200,
   body |-> [plate |-> plate_text,
             entry_time |-> strftime_json(entry_time),
             fee |-> Fee,
             slip_url |-> StaticSlips \o slip_file,
             anno_url |-> StaticSlips \o AnnotatedName,
             crop_url |-> StaticSlips \o CropName]]

\* ghost bookkeeping: the request that wrote each file last
RecordWriter(log, name, r) ==
  [n \in DOMAIN log \cup {name} |-> IF n = name THEN r ELSE log[n]]

\* a write that leaves an existing file alone
write_file_if_absent(fs, name, content) ==
  IF name \in DOMAIN fs THEN fs
  ELSE [n \in DOMAIN fs \cup {name} |-> IF n = name THEN content ELSE fs[n]]

\* cv2.imwrite(path, img) / img.save(path): the file is created or replaced
write_file(fs, name, content) ==
  [n \in DOMAIN fs \cup {name} |-> IF n = name THEN content ELSE fs[n]]

\* @app.route("/static/slips/<path:filename>") (app.py:182-184): the file a
\* URL of the response resolves to
url_filename(url) == SubSeq(url, Len(StaticSlips) + 1, Len(url))

(* ---------------------- inputs of the pipelines ------------------------ *)
\* two requests in flight at once
Reqs == {1, 2}
PipeShape == <<2, 2>>
\* a box inside the image and one outside it, whose padded crop is empty
DetBoxes == {<<0, 0, 1, 1>>, <<6, 6, 7, 7>>}
DetResults == UNION {[1..k -> DetBoxes] : k \in 0..MaxBoxes}
OcrResults ==
  { <<>>,
    <<[text |-> <<"a","b">>, conf |-> 19999]>>,
    <<[text |-> <<"-"," ">>, conf |-> 90000]>>,
    <<[text |-> <<"a","-","7">>, conf |-> 20000]>>,
    <<[text |-> <<"c","r","o","p">>, conf |-> 90000]>>,
    <<[text |-> <<"a","b">>, conf |-> 90000], [text |-> <<"1","2">>, conf |-> 50000]>> }
\* what the client sends: no 'image' part, an empty filename, a file of zero
\* bytes, bytes that are no image, or an image
UploadKinds == {"no_part", "empty_filename", "empty_bytes", "garbage", "image"}
NoResponse == [status |-> 0, body |-> [pending |-> TRUE]]

(* ------------------ inputs of the token-filter check ------------------- *)
Alphabet == {"a", "B", "7", " ", "-"}
ConfLevels == {19999, 20000}

StringsOfLen(k) == [1..k -> Alphabet]
ScenarioOne == <<[text |-> <<"A","B","C"," ","1","2","3">>, conf |-> 90000]>>
ScenarioTwo == <<[text |-> <<"X","Y","1","2">>, conf |-> 50000],
                 [text |-> <<"Z","9">>, conf |-> 10000]>>
\* the number of characters in all the spans of a result
RECURSIVE TotalChars(_)
TotalChars(spans) ==
  IF Len(spans) = 0 THEN 0 ELSE Len(spans[1].text) + TotalChars(Tail(spans))

\* a one-pixel image; the plate box is <<0, 0, 1, 1>> inside it, or
\* <<5, 5, 6, 6>> right of and below it, whose padded crop is empty and is
\* never handed to the recognizer
FilterShape == <<1, 1>>

(* ------------------- inputs of the region-extractor check -------------- *)
Dims == 1..MaxDim
Coords == (0 - MaxOver)..(MaxDim + MaxOver)
\* the detector's xyxy boxes: left/top corner first
BoxSet == {b \in Coords \X Coords \X Coords \X Coords : b[1] <= b[3] /\ b[2] <= b[4]}
NoCrop == [bounds |-> [y1_pad |-> 0, y2_pad |-> 0, x1_pad |-> 0, x2_pad |-> 0],
           rows |-> <<0, 0>>, cols |-> <<0, 0>>, size |-> 0]

VARIABLES fPhase, fRaw, fBox, fService, fInteractive, fPrevService, fPrevInteractive,
          cPhase, cShape, cBox, cPad, cCrop,
          variant, models_loaded, now, files, lastWriter,
          pc, upload, detOut, boxes, box, crop, raw, plate, entry_time,
          slip_file, resp, msgs, shown, wrote, detCalls, ocrCalls,
          wPc, wEndpoint, wArgs, wUpstream, wCalls, wResp

fvars == <<fPhase, fRaw, fBox, fService, fInteractive, fPrevService, fPrevInteractive>>
cvars == <<cPhase, cShape, cBox, cPad, cCrop>>
\* state shared by the requests of one server process
shared == <<variant, models_loaded, now, files, lastWriter>>
\* state of each request
local == <<pc, upload, detOut, boxes, box, crop, raw, plate, entry_time,
           slip_file, resp, msgs, shown, wrote, detCalls, ocrCalls>>
pvars == <<shared, local>>
\* state of one request to the weather proxy (Task 07)
wvars == <<wPc, wEndpoint, wArgs, wUpstream, wCalls, wResp>>
vars == <<fvars, cvars, pvars, wvars>>

FilterIdle ==
  /\ fPhase = "off"
  /\ fRaw = <<>>
  /\ fBox = <<0, 0, 0, 0>>
  /\ fService = <<>>
  /\ fInteractive = <<>>
  /\ fPrevService = <<>>
  /\ fPrevInteractive = <<>>

CropIdle ==
  /\ cPhase = "off"
  /\ cShape = <<1, 1>>
  /\ cBox = <<0, 0, 0, 0>>
  /\ cPad = 0
  /\ cCrop = NoCrop

PipeIdle ==
  /\ variant = "off"
  /\ models_loaded = TRUE
  /\ now = 0
  /\ files = <<>>
  /\ lastWriter = <<>>
  /\ pc = [r \in Reqs |-> "done"]
  /\ upload = [r \in Reqs |-> "none"]
  /\ detOut = [r \in Reqs |-> "none"]
  /\ boxes = [r \in Reqs |-> <<>>]
  /\ box = [r \in Reqs |-> None]
  /\ crop = [r \in Reqs |-> NoCrop]
  /\ raw = [r \in Reqs |-> <<>>]
  /\ plate = [r \in Reqs |-> <<>>]
  /\ entry_time = [r \in Reqs |-> -1]
  /\ slip_file = [r \in Reqs |-> None]
  /\ resp = [r \in Reqs |-> NoResponse]
  /\ msgs = [r \in Reqs |-> <<>>]
  /\ shown = [r \in Reqs |-> 0]
  /\ wrote = [r \in Reqs |-> {}]
  /\ detCalls = [r \in Reqs |-> 0]
  /\ ocrCalls = [r \in Reqs |-> 0]

\* a query parameter that is not in the URL (request.args.get gives None)
Absent == [given |-> FALSE, text |-> <<>>]
NoArgs == [city |-> Absent, lat |-> Absent, lon |-> Absent, units |-> Absent]

WeatherIdle ==
  /\ wPc = "off"
  /\ wEndpoint = "none"
  /\ wArgs = NoArgs
  /\ wUpstream = "none"
  /\ wCalls = 0
  /\ wResp = NoResponse

(* ----------------- specification of the token filter ------------------- *)
FilterInit ==
  /\ fPhase = "raw"
  /\ \/ fBox = <<0, 0, 1, 1>> /\ fRaw \in {<<>>, ScenarioOne, ScenarioTwo}
     \/ fBox = <<5, 5, 6, 6>> /\ fRaw = <<>>
  /\ fService = <<>>
  /\ fInteractive = <<>>
  /\ fPrevService = <<>>
  /\ fPrevInteractive = <<>>
  /\ CropIdle
  /\ PipeIdle
  /\ WeatherIdle

\* the recognizer adds one more span to its result: at most MaxSpans spans
\* of at most MaxChars characters in all
EmitSpan ==
  /\ fPhase = "raw"
  /\ fBox = <<0, 0, 1, 1>>
  /\ Len(fRaw) < MaxSpans
  /\ \E l \in 0..(MaxChars - TotalChars(fRaw)) :
       \E t \in StringsOfLen(l), cf \in ConfLevels :
         fRaw' = Append(fRaw, [text |-> t, conf |-> cf])
  /\ UNCHANGED <<fPhase, fBox, fService, fInteractive, fPrevService, fPrevInteractive>>
  /\ UNCHANGED <<cvars, pvars, wvars>>

\* the plate box is cropped and the recognizer's spans go through both
\* implementations of the filter
FilterSpans ==
  /\ fPhase = "raw"
  /\ fPhase' = "filtered"
  /\ fService' = extract_text_reading(crop_of(FilterShape, fBox, pad), fRaw)
  /\ fInteractive' = detect_and_ocr_reading(crop_of(FilterShape, fBox, padding), fRaw)
  /\ UNCHANGED <<fRaw, fBox, fPrevService, fPrevInteractive>>
  /\ UNCHANGED <<cvars, pvars, wvars>>

IsSentinel(p) ==
  p \in {NoTextDetected, CropError, OcrFailedNoText, OcrFailedFiltered,
         ProcessingError, NoPlateDetected}

\* a reading the filter produced is handed back to it as one recognized span
Refilter ==
  /\ fPhase = "filtered"
  /\ ~IsSentinel(fService) /\ ~IsSentinel(fInteractive)
  /\ \E c \in {k \in ConfLevels : k >= confidence_threshold} :
       /\ fRaw' = <<[text |-> fService, conf |-> c]>>
       /\ fService' = extract_text_reading(crop_of(FilterShape, fBox, pad),
                                           <<[text |-> fService, conf |-> c]>>)
       /\ fInteractive' = detect_and_ocr_reading(crop_of(FilterShape, fBox, padding),
                                           <<[text |-> fInteractive, conf |-> c]>>)
  /\ fPrevService' = fService
  /\ fPrevInteractive' = fInteractive
  /\ fPhase' = "refiltered"
  /\ UNCHANGED fBox
  /\ UNCHANGED <<cvars, pvars, wvars>>

FilterNext == EmitSpan \/ FilterSpans \/ Refilter

SpecFilter == FilterInit /\ [][FilterNext]_vars

(* --------------- specification of the region extractor ----------------- *)
CropInit ==
  /\ cPhase = "boxed"
  /\ cShape \in Dims \X Dims
  /\ cBox \in BoxSet
  /\ cPad = 0
  /\ cCrop = NoCrop
  /\ FilterIdle
  /\ PipeIdle
  /\ WeatherIdle

\* app.py:44-49
ExtractService ==
  /\ cPhase = "boxed"
  /\ cPad' = pad
  /\ cCrop' = crop_of(cShape, cBox, pad)
  /\ cPhase' = "cropped"
  /\ UNCHANGED <<cShape, cBox>>
  /\ UNCHANGED <<fvars, pvars, wvars>>

\* main.py:84-91
ExtractInteractive ==
  /\ cPhase = "boxed"
  /\ cPad' = padding
  /\ cCrop' = crop_of(cShape, cBox, padding)
  /\ cPhase' = "cropped"
  /\ UNCHANGED <<cShape, cBox>>
  /\ UNCHANGED <<fvars, pvars, wvars>>

\* the same expression with another padding margin
ExtractPadded ==
  /\ cPhase = "boxed"
  /\ \E p \in 0..MaxPad :
       /\ cPad' = p
       /\ cCrop' = crop_of(cShape, cBox, p)
  /\ cPhase' = "cropped"
  /\ UNCHANGED <<cShape, cBox>>
  /\ UNCHANGED <<fvars, pvars, wvars>>

CropNext == ExtractService \/ ExtractInteractive \/ ExtractPadded

SpecCrop == CropInit /\ [][CropNext]_vars

(* ------------------ the service: process() of app.py ------------------- *)
Goto(r, label) == pc' = [pc EXCEPT ![r] = label]
Answer(r, response) == resp' = [resp EXCEPT ![r] = response]

PipeInit ==
  /\ variant \in {"service", "interactive"}
  /\ models_loaded \in (IF variant = "interactive" THEN BOOLEAN ELSE {TRUE})
  /\ now = 0
  /\ files = <<>>
  /\ lastWriter = <<>>
  /\ pc = [r \in Reqs |-> "idle"]
  /\ upload = [r \in Reqs |-> "none"]
  /\ detOut = [r \in Reqs |-> "none"]
  /\ boxes = [r \in Reqs |-> <<>>]
  /\ box = [r \in Reqs |-> None]
  /\ crop = [r \in Reqs |-> NoCrop]
  /\ raw = [r \in Reqs |-> <<>>]
  /\ plate = [r \in Reqs |-> <<>>]
  /\ entry_time = [r \in Reqs |-> -1]
  /\ slip_file = [r \in Reqs |-> None]
  /\ resp = [r \in Reqs |-> NoResponse]
  /\ msgs = [r \in Reqs |-> <<>>]
  /\ shown = [r \in Reqs |-> 0]
  /\ wrote = [r \in Reqs |-> {}]
  /\ detCalls = [r \in Reqs |-> 0]
  /\ ocrCalls = [r \in Reqs |-> 0]
  /\ FilterIdle
  /\ CropIdle
  /\ WeatherIdle

\* the wall clock advances
Tick ==
  /\ variant \in {"service", "interactive"}
  /\ now < MaxClock
  /\ now' = now + 1
  /\ UNCHANGED <<variant, models_loaded, files, lastWriter, local, fvars, cvars, wvars>>

\* a client posts to /process (a thread of the server takes the request), or
\* a browser session uploads a file to the page
Arrive(r) ==
  /\ variant \in {"service", "interactive"}
  /\ pc[r] = "idle"
  /\ \E k \in (IF variant = "service" THEN UploadKinds
               ELSE {"empty_bytes", "garbage", "image"}) :
       upload' = [upload EXCEPT ![r] = k]
  /\ Goto(r, IF variant = "service" THEN "check_part" ELSE "ui_gate")
  /\ UNCHANGED <<shared, detOut, boxes, box, crop, raw, plate, entry_time,
                 slip_file, resp, msgs, shown, wrote, detCalls, ocrCalls, fvars, cvars, wvars>>

\* app.py:136-137
CheckPart(r) ==
  /\ pc[r] = "check_part"
  /\ IF upload[r] = "no_part"
     THEN Answer(r, bad_request("No image uploaded")) /\ Goto(r, "done")
     ELSE Goto(r, "check_name") /\ UNCHANGED resp
  /\ UNCHANGED <<shared, upload, detOut, boxes, box, crop, raw, plate, entry_time,
                 slip_file, msgs, shown, wrote, detCalls, ocrCalls, fvars, cvars, wvars>>

\* app.py:139-141
CheckName(r) ==
  /\ pc[r] = "check_name"
  /\ IF upload[r] = "empty_filename"
     THEN Answer(r, bad_request("Empty filename")) /\ Goto(r, "done")
     ELSE Goto(r, "decode") /\ UNCHANGED resp
  /\ UNCHANGED <<shared, upload, detOut, boxes, box, crop, raw, plate, entry_time,
                 slip_file, msgs, shown, wrote, detCalls, ocrCalls, fvars, cvars, wvars>>

\* app.py:144-147.  cv2.imdecode returns None for bytes that are no image
\* and raises cv2.error (assertion !buf.empty()) for a buffer of zero bytes;
\* nothing in process() catches it
Decode(r) ==
  /\ pc[r] = "decode"
  /\ CASE upload[r] = "empty_bytes" ->
            Answer(r, server_error("cv2.error")) /\ Goto(r, "done")
       [] upload[r] = "garbage" ->
            Answer(r, bad_request("Could not decode image")) /\ Goto(r, "done")
       [] OTHER -> Goto(r, "detect") /\ UNCHANGED resp
  /\ UNCHANGED <<shared, upload, detOut, boxes, box, crop, raw, plate, entry_time,
                 slip_file, msgs, shown, wrote, detCalls, ocrCalls, fvars, cvars, wvars>>

\* detect_plate, app.py:35-36: the detector is called once and either raises
\* or yields its ranked boxes
Detect(r) ==
  /\ pc[r] = "detect"
  /\ detCalls' = [detCalls EXCEPT ![r] = @ + 1]
  /\ \/ /\ detOut' = [detOut EXCEPT ![r] = "raised"]
        /\ Answer(r, server_error("detector")) /\ Goto(r, "done")
        /\ UNCHANGED boxes
     \/ \E bxs \in DetResults :
          /\ detOut' = [detOut EXCEPT ![r] = "boxes"]
          /\ boxes' = [boxes EXCEPT ![r] = bxs]
          /\ Goto(r, "select") /\ UNCHANGED resp
  /\ UNCHANGED <<shared, upload, box, crop, raw, plate, entry_time,
                 slip_file, msgs, shown, wrote, ocrCalls, fvars, cvars, wvars>>

\* detect_plate, app.py:37-39, and its caller, app.py:150-152
Select(r) ==
  /\ pc[r] = "select"
  /\ box' = [box EXCEPT ![r] = detect_plate(boxes[r])]
  /\ detOut' = [detOut EXCEPT ![r] = IF Len(boxes[r]) = 0 THEN "no_candidates"
                                     ELSE "candidates"]
  /\ IF detect_plate(boxes[r]) = None
     THEN Answer(r, no_plate_response) /\ Goto(r, "done")
     ELSE Goto(r, "crop") /\ UNCHANGED resp
  /\ UNCHANGED <<shared, upload, boxes, crop, raw, plate, entry_time,
                 slip_file, msgs, shown, wrote, detCalls, ocrCalls, fvars, cvars, wvars>>

\* extract_text, app.py:44-51; the detector's list of boxes, a local of
\* detect_plate, is out of reach from here on
Crop(r) ==
  /\ pc[r] = "crop"
  /\ boxes' = [boxes EXCEPT ![r] = <<>>]
  /\ LET c == crop_of(PipeShape, box[r], pad)
     IN /\ crop' = [crop EXCEPT ![r] = c]
        /\ IF c.size = 0
           THEN /\ plate' = [plate EXCEPT ![r] = extract_text_reading(c, <<>>)]
                /\ Goto(r, "save_anno")
           ELSE Goto(r, "ocr") /\ UNCHANGED plate
  /\ UNCHANGED <<shared, upload, detOut, box, raw, entry_time,
                 slip_file, resp, msgs, shown, wrote, detCalls, ocrCalls, fvars, cvars, wvars>>

\* a recognizer call that is made again
Ocr_retry(r) ==
  /\ pc[r] = "ocr" /\ ocrCalls[r] < 2
  /\ ocrCalls' = [ocrCalls EXCEPT ![r] = @ + 1]
  /\ UNCHANGED <<shared, pc, upload, detOut, boxes, box, crop, raw, plate, entry_time,
                 slip_file, resp, msgs, shown, wrote, detCalls, fvars, cvars, wvars>>

\* extract_text, app.py:53-62: the recognizer is called once and either
\* raises or yields its spans
Ocr(r) ==
  /\ pc[r] = "ocr"
  /\ ocrCalls' = [ocrCalls EXCEPT ![r] = @ + 1]
  /\ \/ /\ Answer(r, server_error("recognizer")) /\ Goto(r, "done")
        /\ UNCHANGED <<raw, plate>>
     \/ \E spans \in OcrResults :
          /\ raw' = [raw EXCEPT ![r] = spans]
          /\ plate' = [plate EXCEPT ![r] = extract_text_reading(crop[r], spans)]
          /\ Goto(r, "save_anno") /\ UNCHANGED resp
  /\ UNCHANGED <<shared, upload, detOut, boxes, box, crop, entry_time,
                 slip_file, msgs, shown, wrote, detCalls, fvars, cvars, wvars>>

\* app.py:158-162; each imwrite is taken as one step
SaveAnnotated(r) ==
  /\ pc[r] = "save_anno"
  /\ files' = write_file(files, AnnotatedName,
                         [kind |-> "annotated", by |-> r, box |-> box[r]])
  /\ lastWriter' = RecordWriter(lastWriter, AnnotatedName, r)
  /\ wrote' = [wrote EXCEPT ![r] = @ \cup {AnnotatedName}]
  /\ Goto(r, "save_crop")
  /\ UNCHANGED <<variant, models_loaded, now, upload, detOut, boxes, box, crop, raw,
                 plate, entry_time, slip_file, resp, msgs, shown, detCalls, ocrCalls,
                 fvars, cvars, wvars>>

\* app.py:165-166.  cv2.imwrite raises cv2.error (assertion !_img.empty())
\* for an image without pixels
SaveCrop(r) ==
  /\ pc[r] = "save_crop"
  /\ IF crop[r].size = 0
     THEN /\ Answer(r, server_error("cv2.error")) /\ Goto(r, "done")
          /\ UNCHANGED <<files, lastWriter, wrote>>
     ELSE /\ files' = write_file(files, CropName,
                                 [kind |-> "crop", by |-> r, box |-> box[r]])
          /\ lastWriter' = RecordWriter(lastWriter, CropName, r)
          /\ wrote' = [wrote EXCEPT ![r] = @ \cup {CropName}]
          /\ Goto(r, "slip") /\ UNCHANGED resp
  /\ UNCHANGED <<variant, models_loaded, now, upload, detOut, boxes, box, crop, raw,
                 plate, entry_time, slip_file, msgs, shown, detCalls, ocrCalls,
                 fvars, cvars, wvars>>

\* app.py:79-85: the Poppins files load, or any failure falls back to
\* ImageFont.load_default()
ServiceFonts == {"poppins", "default"}

\* app.py:169-170 with generate_slip (app.py:65-124): the clock is read, the
\* slip is drawn and saved; a failing save raises out of process()
GenerateSlip(r) ==
  /\ pc[r] = "slip"
  /\ entry_time' = [entry_time EXCEPT ![r] = now]
  /\ LET filename == slip_filename(plate[r], now)
     IN \/ /\ \E f \in ServiceFonts :
                files' = write_file(files, filename,
                                    [kind |-> "slip", by |-> r, font |-> f,
                                     rows |-> slip_rows(plate[r], now)])
           /\ lastWriter' = RecordWriter(lastWriter, filename, r)
           /\ wrote' = [wrote EXCEPT ![r] = @ \cup {filename}]
           /\ slip_file' = [slip_file EXCEPT ![r] = filename]
           /\ Goto(r, "respond") /\ UNCHANGED resp
        \/ /\ Answer(r, server_error("save")) /\ Goto(r, "done")
           /\ UNCHANGED <<files, lastWriter, wrote, slip_file>>
  /\ UNCHANGED <<variant, models_loaded, now, upload, detOut, boxes, box, crop, raw,
                 plate, msgs, shown, detCalls, ocrCalls, fvars, cvars, wvars>>

\* app.py:172-179
Respond(r) ==
  /\ pc[r] = "respond"
  /\ Answer(r, success_response(plate[r], entry_time[r], slip_file[r]))
  /\ Goto(r, "done")
  /\ UNCHANGED <<shared, upload, detOut, boxes, box, crop, raw, plate, entry_time,
                 slip_file, msgs, shown, wrote, detCalls, ocrCalls, fvars, cvars, wvars>>

(* ------------------ the page: main.py, one run per upload -------------- *)
SLIP_FILENAME == <<"g","e","n","e","r","a","t","e","d","_","p","a","r","k","i","n","g","_","s","l","i","p",".","p","n","g">>
NotAvailable == <<"N","/","A">>

\* str.lower on one ASCII character
lower(ch) ==
  IF \E i \in 1..Len(UpperChars) : UpperChars[i] = ch
  THEN LowerChars[CHOOSE i \in 1..Len(UpperChars) : UpperChars[i] = ch]
  ELSE ch
lower_str(t) == [i \in 1..Len(t) |-> lower(t[i])]

\* needle in hay
contains(hay, needle) ==
  \E i \in 1..(Len(hay) - Len(needle) + 1) : SubSeq(hay, i, i + Len(needle) - 1) = needle

ErrorMarkers == { <<"e","r","r","o","r">>, <<"f","a","i","l","e","d">>,
                  <<"n","o"," ","p","l","a","t","e">>, <<"n","/","a">>,
                  <<"c","r","o","p">> }

\* main.py:355
is_success(plate_text_result) ==
  /\ ~\E m \in ErrorMarkers : contains(lower_str(plate_text_result), m)
  /\ Len(plate_text_result) > 0

\* main.py:206
display_plate_text(plate_text) ==
  IF /\ Len(plate_text) > 0
     /\ ~contains(lower_str(plate_text), <<"f","a","i","l","e","d">>)
     /\ ~contains(lower_str(plate_text), <<"e","r","r","o","r">>)
  THEN plate_text ELSE NotAvailable

\* main.py:207-211
content_items(plate_text, entry_time_obj) ==
  << <<"Vehicle Plate", display_plate_text(plate_text)>>,
     <<"Entry Time", strftime_json(entry_time_obj)>>,
     <<"Parking Fee", Fee>> >>

Say(r, m) == msgs' = [msgs EXCEPT ![r] = Append(@, m)]

\* main.py:325-327, 400-401
UiGate(r) ==
  /\ pc[r] = "ui_gate"
  /\ IF models_loaded
     THEN Goto(r, "ui_decode") /\ UNCHANGED msgs
     ELSE Say(r, "models_failed") /\ Goto(r, "done")
  /\ UNCHANGED <<shared, upload, detOut, boxes, box, crop, raw, plate, entry_time,
                 slip_file, resp, shown, wrote, detCalls, ocrCalls, fvars, cvars, wvars>>

\* main.py:332-336; the cv2.error of a zero-byte buffer is caught at
\* main.py:394
UiDecode(r) ==
  /\ pc[r] = "ui_decode"
  /\ CASE upload[r] = "empty_bytes" -> Say(r, "unexpected_error") /\ Goto(r, "done")
       [] upload[r] = "garbage" -> Say(r, "decode_failed") /\ Goto(r, "done")
       [] OTHER -> Goto(r, "ui_detect") /\ UNCHANGED msgs
  /\ UNCHANGED <<shared, upload, detOut, boxes, box, crop, raw, plate, entry_time,
                 slip_file, resp, shown, wrote, detCalls, ocrCalls, fvars, cvars, wvars>>

\* detect_and_ocr, main.py:75-78 and 126-130
UiDetect(r) ==
  /\ pc[r] = "ui_detect"
  /\ detCalls' = [detCalls EXCEPT ![r] = @ + 1]
  /\ \/ /\ detOut' = [detOut EXCEPT ![r] = "raised"]
        /\ plate' = [plate EXCEPT ![r] = ProcessingError]
        /\ Say(r, "processing_error")
        /\ Goto(r, "ui_time")
        /\ UNCHANGED boxes
     \/ \E bxs \in DetResults :
          /\ detOut' = [detOut EXCEPT ![r] = "boxes"]
          /\ boxes' = [boxes EXCEPT ![r] = bxs]
          /\ Goto(r, "ui_select")
          /\ UNCHANGED <<msgs, plate>>
  /\ UNCHANGED <<shared, upload, box, crop, raw, entry_time,
                 slip_file, resp, shown, wrote, ocrCalls, fvars, cvars, wvars>>

\* detect_and_ocr, main.py:80-85
UiSelect(r) ==
  /\ pc[r] = "ui_select"
  /\ detOut' = [detOut EXCEPT ![r] = IF Len(boxes[r]) = 0 THEN "no_candidates"
                                     ELSE "candidates"]
  /\ IF Len(boxes[r]) = 0
     THEN /\ plate' = [plate EXCEPT ![r] = NoPlateDetected]
          /\ Goto(r, "ui_time") /\ UNCHANGED box
     ELSE /\ box' = [box EXCEPT ![r] = boxes[r][1]]
          /\ Goto(r, "ui_crop") /\ UNCHANGED plate
  /\ UNCHANGED <<shared, upload, boxes, crop, raw, entry_time,
                 slip_file, resp, msgs, shown, wrote, detCalls, ocrCalls, fvars, cvars, wvars>>

\* detect_and_ocr, main.py:86-96; boxes is not read again after line 84
UiCrop(r) ==
  /\ pc[r] = "ui_crop"
  /\ boxes' = [boxes EXCEPT ![r] = <<>>]
  /\ LET c == crop_of(PipeShape, box[r], padding)
     IN /\ crop' = [crop EXCEPT ![r] = c]
        /\ IF c.size = 0
           THEN /\ plate' = [plate EXCEPT ![r] = detect_and_ocr_reading(c, <<>>)]
                /\ Goto(r, "ui_time")
           ELSE Goto(r, "ui_ocr") /\ UNCHANGED plate
  /\ UNCHANGED <<shared, upload, detOut, box, raw, entry_time,
                 slip_file, resp, msgs, shown, wrote, detCalls, ocrCalls, fvars, cvars, wvars>>

\* detect_and_ocr, main.py:98-132
UiOcr(r) ==
  /\ pc[r] = "ui_ocr"
  /\ ocrCalls' = [ocrCalls EXCEPT ![r] = @ + 1]
  /\ \/ /\ plate' = [plate EXCEPT ![r] = ProcessingError]
        /\ Say(r, "processing_error")
        /\ UNCHANGED raw
     \/ \E spans \in OcrResults :
          /\ raw' = [raw EXCEPT ![r] = spans]
          /\ plate' = [plate EXCEPT ![r] = detect_and_ocr_reading(crop[r], spans)]
          /\ UNCHANGED msgs
  /\ Goto(r, "ui_time")
  /\ UNCHANGED <<shared, upload, detOut, boxes, box, crop, entry_time,
                 slip_file, resp, shown, wrote, detCalls, fvars, cvars, wvars>>

\* main.py:341
UiTime(r) ==
  /\ pc[r] = "ui_time"
  /\ entry_time' = [entry_time EXCEPT ![r] = now]
  /\ Goto(r, "ui_show")
  /\ UNCHANGED <<shared, upload, detOut, boxes, box, crop, raw, plate,
                 slip_file, resp, msgs, shown, wrote, detCalls, ocrCalls, fvars, cvars, wvars>>

\* main.py:360-367
result_message(plate_text_result) ==
  IF is_success(plate_text_result) THEN "success"
  ELSE IF plate_text_result = OcrFailedNoText THEN "ocr_no_text"
  ELSE IF plate_text_result = OcrFailedFiltered THEN "ocr_filtered"
  ELSE IF plate_text_result = NoPlateDetected THEN "no_plate"
  ELSE "status_warning"

\* main.py:343-367, 390-396.  Whether st.image accepts a crop without pixels
\* depends on the installed Streamlit and Pillow: it either draws nothing or
\* raises into the handler at main.py:394
UiShow(r) ==
  /\ pc[r] = "ui_show"
  /\ IF box[r] = None
     THEN Say(r, "detection_failed") /\ Goto(r, "done")
     ELSE \/ /\ crop[r].size = 0
             /\ Say(r, "unexpected_error") /\ Goto(r, "done")
          \/ IF is_success(plate[r])
             THEN /\ Say(r, result_message(plate[r]))
                  /\ Goto(r, "ui_slip")
             ELSE /\ msgs' = [msgs EXCEPT ![r] =
                                @ \o <<result_message(plate[r]), "slip_unavailable">>]
                  /\ Goto(r, "done")
  /\ UNCHANGED <<shared, upload, detOut, boxes, box, crop, raw, plate, entry_time,
                 slip_file, resp, shown, wrote, detCalls, ocrCalls, fvars, cvars, wvars>>

\* main.py:153-178: Poppins, else Arial, else ImageFont.load_default()
PageFonts == {"poppins", "arial", "default"}
\* main.py:180-181
fonts_notice(f) == IF f = "poppins" THEN <<>> ELSE <<"fonts_info">>

\* main.py:372 with create_parking_slip (main.py:136-287), and 388-389 when
\* the save fails
UiCreateSlip(r) ==
  /\ pc[r] = "ui_slip"
  /\ \E f \in PageFonts :
       \/ /\ files' = write_file(files, SLIP_FILENAME,
                                  [kind |-> "slip", by |-> r, font |-> f,
                                   rows |-> content_items(plate[r], entry_time[r])])
          /\ lastWriter' = RecordWriter(lastWriter, SLIP_FILENAME, r)
          /\ wrote' = [wrote EXCEPT ![r] = @ \cup {SLIP_FILENAME}]
          /\ slip_file' = [slip_file EXCEPT ![r] = SLIP_FILENAME]
          /\ msgs' = [msgs EXCEPT ![r] = @ \o fonts_notice(f)]
          /\ Goto(r, "ui_show_slip")
       \/ /\ msgs' = [msgs EXCEPT ![r] =
                         @ \o fonts_notice(f) \o <<"slip_save_failed", "slip_failed">>]
          /\ Goto(r, "done")
          /\ UNCHANGED <<files, lastWriter, wrote, slip_file>>
  /\ UNCHANGED <<variant, models_loaded, now, upload, detOut, boxes, box, crop, raw,
                 plate, entry_time, resp, shown, detCalls, ocrCalls, fvars, cvars, wvars>>

\* strftime('%Y%m%d_%H%M') (main.py:385): the seconds are left out
strftime_minutes(t) == <<"2","0","2","6","0","1","0","1","_","1","2","0","0">>

\* main.py:385
download_name(plate_text, t) ==
  <<"P","a","r","k","i","n","g","_","S","l","i","p","_">>
    \o replace_spaces(plate_text) \o <<"_">> \o strftime_minutes(t) \o PngExt

\* main.py:374-387: the saved file is opened again and shown, with a button
\* that offers it under the download name
UiShowSlip(r) ==
  /\ pc[r] = "ui_show_slip"
  /\ shown' = [shown EXCEPT ![r] = files[slip_file[r]].by]
  /\ Say(r, "slip_shown")
  /\ Answer(r, [status |-> 0,
                body |-> [file_name |-> download_name(plate[r], entry_time[r])]])
  /\ Goto(r, "done")
  /\ UNCHANGED <<shared, upload, detOut, boxes, box, crop, raw, plate, entry_time,
                 slip_file, wrote, detCalls, ocrCalls, fvars, cvars, wvars>>

Next ==
  \/ Tick
  \/ \E r \in Reqs :
       \/ Arrive(r)
       \/ CheckPart(r) \/ CheckName(r) \/ Decode(r) \/ Detect(r) \/ Select(r)
       \/ Crop(r) \/ Ocr(r)
       \/ SaveAnnotated(r) \/ SaveCrop(r) \/ GenerateSlip(r) \/ Respond(r)
       \/ UiGate(r) \/ UiDecode(r) \/ UiDetect(r) \/ UiSelect(r) \/ UiCrop(r) \/ UiOcr(r)
       \/ UiTime(r) \/ UiShow(r) \/ UiCreateSlip(r) \/ UiShowSlip(r)

Spec == PipeInit /\ [][Next]_vars

(* ================== the weather proxy: Task 07/app.py ================== *)
\* a query parameter given with a text
Given(t) == [given |-> TRUE, text |-> t]

Metric == <<"m","e","t","r","i","c">>
Imperial == <<"i","m","p","e","r","i","a","l">>
Kelvin == <<"k","e","l","v","i","n">>
\* the list tested at app.py:163, 198 and 226
AllowedUnits == {Metric, Imperial, Kelvin}

\* request.args.get('units', 'metric')
units_of(a) == IF a.units.given THEN a.units.text ELSE Metric

\* not p, for a parameter that is None or a string
falsy(p) == ~p.given \/ Len(p.text) = 0

\* str.strip on spaces, as float() does before it reads the number
RECURSIVE lstrip(_)
lstrip(t) == IF Len(t) > 0 /\ t[1] = " " THEN lstrip(Tail(t)) ELSE t
RECURSIVE rstrip(_)
rstrip(t) ==
  IF Len(t) > 0 /\ t[Len(t)] = " " THEN rstrip(SubSeq(t, 1, Len(t) - 1)) ELSE t
strip(t) == rstrip(lstrip(t))

unsigned(t) == IF Len(t) > 0 /\ t[1] \in {"+", "-"} THEN Tail(t) ELSE t
AllDigits(t) == \A i \in 1..Len(t) : t[i] \in Range(DigitChars)
\* digits with at most one point and at least one digit
IsMantissa(m) ==
  /\ \A i \in 1..Len(m) : m[i] \in Range(DigitChars) \cup {"."}
  /\ Cardinality({i \in 1..Len(m) : m[i] = "."}) <= 1
  /\ \E i \in 1..Len(m) : m[i] \in Range(DigitChars)
\* an optional sign and at least one digit
IsExponent(x) == Len(unsigned(x)) > 0 /\ AllDigits(unsigned(x))
\* where the exponent letter stands, or 0
ExpPos(t) ==
  IF \E i \in 1..Len(t) : t[i] \in {"e", "E"}
  THEN CHOOSE i \in 1..Len(t) :
         t[i] \in {"e", "E"} /\ \A j \in 1..(i - 1) : t[j] \notin {"e", "E"}
  ELSE 0

\* float(text) (app.py:193-194): a finite number, one of the special values
\* nan and inf, which float() reads in any letter case, or ValueError
float(text) ==
  LET u == unsigned(strip(text))
      e == ExpPos(u)
      m == IF e = 0 THEN u ELSE SubSeq(u, 1, e - 1)
      x == IF e = 0 THEN <<>> ELSE SubSeq(u, e + 1, Len(u))
  IN IF lower_str(u) = <<"n","a","n">> THEN [ok |-> TRUE, kind |-> "nan"]
     ELSE IF lower_str(u) \in {<<"i","n","f">>, <<"i","n","f","i","n","i","t","y">>}
          THEN [ok |-> TRUE, kind |-> "inf"]
     ELSE IF IsMantissa(m) /\ (e = 0 \/ IsExponent(x))
          THEN [ok |-> TRUE, kind |-> "finite"]
     ELSE [ok |-> FALSE, kind |-> "ValueError"]

\* app.py:161, 164, 190, 196, 199, 224, 227
bad_request_400(msg) == [status |-> 400, body |-> [error |-> msg]]
\* app.py:176-180, 211-215, 275-279
failure_500(msg) == [status |-> 500, body |-> [success |-> FALSE, error |-> msg]]
\* app.py:171-174, 206-209, 270-273
success_200(ep, u) ==
  [status |-> 200, body |-> [success |-> TRUE, data |-> [of |-> ep, units |-> u]]]

\* the checks of get_current_weather (app.py:160-164) and get_forecast
\* (app.py:223-227): the 400 answer, or NoResponse when they pass
check_city(a) ==
  IF falsy(a.city) THEN bad_request_400("City parameter is required")
  ELSE IF units_of(a) \notin AllowedUnits
       THEN bad_request_400("Units must be metric, imperial, or kelvin")
  ELSE NoResponse

\* the checks of get_weather_by_coordinates (app.py:189-199)
check_coordinates(a) ==
  IF falsy(a.lat) \/ falsy(a.lon)
  THEN bad_request_400("Both lat and lon parameters are required")
  ELSE IF ~float(a.lat.text).ok \/ ~float(a.lon.text).ok
       THEN bad_request_400("Invalid coordinates format")
  ELSE IF units_of(a) \notin AllowedUnits
       THEN bad_request_400("Units must be metric, imperial, or kelvin")
  ELSE NoResponse

\* the exception a WeatherService method raises for a failed request
\* (app.py:30-38, 54-62, 77-85)
service_exception(ep, outcome) ==
  CASE outcome = "http_401" -> "API Key Invalid"
    [] outcome = "http_404" /\ ep = "current" -> "City not found"
    [] outcome = "http_404" /\ ep = "forecast" -> "City not found for forecast"
    [] outcome = "http_400" /\ ep = "coordinates" -> "Invalid coordinates"
    [] outcome = "network" -> "Network error"
    [] OTHER -> IF ep = "forecast" THEN "Forecast API error" ELSE "Weather API error"

(* ---------------------- inputs of the weather proxy -------------------- *)
Endpoints == {"current", "forecast", "coordinates"}
CityArgs == {Absent, Given(<<>>), Given(<<"L","a","h","o","r","e">>)}
UnitArgs == {Absent, Given(<<>>), Given(Metric), Given(Imperial), Given(Kelvin),
             Given(<<"s","t","a","n","d","a","r","d">>)}
CoordArgs ==
  { Absent, Given(<<>>), Given(<<"3","1",".","5">>), Given(<<"-","7">>),
    Given(<<" ","5"," ">>), Given(<<"1","e","2">>), Given(<<"a","b","c">>),
    Given(<<"1",".","2",".","3">>), Given(<<"n","a","n">>), Given(<<"I","n","f">>) }
\* what the third-party API does with one request: a complete document, a
\* document without the fields the formatter reads, an HTTP error status,
\* or no answer
UpstreamOutcomes ==
  {"json", "json_incomplete", "http_400", "http_401", "http_404", "http_500", "network"}

(* ------------------ specification of the weather proxy ----------------- *)
WeatherInit ==
  /\ wPc = "idle"
  /\ wEndpoint = "none"
  /\ wArgs = NoArgs
  /\ wUpstream = "none"
  /\ wCalls = 0
  /\ wResp = NoResponse
  /\ FilterIdle
  /\ CropIdle
  /\ PipeIdle

\* a GET request reaches one of the three routes (app.py:154, 182, 217)
WArrive ==
  /\ wPc = "idle"
  /\ \E ep \in Endpoints :
       /\ wEndpoint' = ep
       /\ \E u \in UnitArgs :
            IF ep = "coordinates"
            THEN \E la \in CoordArgs, lo \in CoordArgs :
                   wArgs' = [city |-> Absent, lat |-> la, lon |-> lo, units |-> u]
            ELSE \E c \in CityArgs :
                   wArgs' = [city |-> c, lat |-> Absent, lon |-> Absent, units |-> u]
  /\ wPc' = "validate"
  /\ UNCHANGED <<wUpstream, wCalls, wResp, fvars, cvars, pvars>>

\* the checks at the head of the handler answer 400 or let the request on
Validated(answer) ==
  /\ IF answer = NoResponse
     THEN wPc' = "call" /\ UNCHANGED wResp
     ELSE wPc' = "done" /\ wResp' = answer
  /\ UNCHANGED <<wEndpoint, wArgs, wUpstream, wCalls, fvars, cvars, pvars>>

\* get_current_weather, app.py:157-164
ValidateCurrent ==
  /\ wPc = "validate" /\ wEndpoint = "current"
  /\ Validated(check_city(wArgs))

\* get_weather_by_coordinates, app.py:185-199
ValidateCoordinates ==
  /\ wPc = "validate" /\ wEndpoint = "coordinates"
  /\ Validated(check_coordinates(wArgs))

\* get_forecast, app.py:220-227
ValidateForecast ==
  /\ wPc = "validate" /\ wEndpoint = "forecast"
  /\ Validated(check_city(wArgs))

\* the WeatherService method sends one requests.get (app.py:27, 51, 74);
\* a failure is raised as Exception and caught by the handler (app.py:176,
\* 211, 275)
CallUpstream ==
  /\ wPc = "call"
  /\ wCalls' = wCalls + 1
  /\ \E o \in UpstreamOutcomes :
       /\ wUpstream' = o
       /\ IF o \in {"json", "json_incomplete"}
          THEN wPc' = "format" /\ UNCHANGED wResp
          ELSE wPc' = "done" /\ wResp' = failure_500(service_exception(wEndpoint, o))
  /\ UNCHANGED <<wEndpoint, wArgs, fvars, cvars, pvars>>

\* format_weather_response (app.py:90-120) or the forecast loop (app.py:
\* 233-268): a missing field raises KeyError into the same handler
FormatResponse ==
  /\ wPc = "format"
  /\ wResp' = IF wUpstream = "json" THEN success_200(wEndpoint, units_of(wArgs))
              ELSE failure_500("KeyError")
  /\ wPc' = "done"
  /\ UNCHANGED <<wEndpoint, wArgs, wUpstream, wCalls, fvars, cvars, pvars>>

WeatherNext ==
  \/ WArrive
  \/ ValidateCurrent \/ ValidateCoordinates \/ ValidateForecast
  \/ CallUpstream \/ FormatResponse

SpecWeather == WeatherInit /\ [][WeatherNext]_vars

(* ======================= properties and their checks =================== *)
\* what the token filter is described to compute, character by character
RECURSIVE StripUpper(_)
StripUpper(t) ==
  IF Len(t) = 0 THEN <<>>
  ELSE (IF isalnum(t[1]) THEN <<upper(t[1])>> ELSE <<>>) \o StripUpper(Tail(t))

Survives(s) == s.conf >= 20000 /\ \E i \in 1..Len(s.text) : isalnum(s.text[i])
Survivors(spans) == SelectSeq(spans, Survives)

RECURSIVE SpaceJoined(_)
SpaceJoined(spans) ==
  IF Len(spans) = 0 THEN <<>>
  ELSE IF Len(spans) = 1 THEN StripUpper(spans[1].text)
  ELSE StripUpper(spans[1].text) \o <<" ">> \o SpaceJoined(Tail(spans))

Described(spans) == SpaceJoined(Survivors(spans))
FilterCropNonEmpty == crop_of(FilterShape, fBox, pad).size > 0
                      /\ crop_of(FilterShape, fBox, padding).size > 0

\* C1 as stated: for every span sequence of a non-empty crop, the reading of
\* both variants is the space-joined list of cleaned surviving spans
C1_AsStated ==
  (fPhase = "filtered" /\ FilterCropNonEmpty)
    => (fService = Described(fRaw) /\ fInteractive = Described(fRaw))

\* C1 (amended): whenever at least one span survives, the reading of both
\* variants is the cleaned surviving spans, in order, joined by one space
\* ("ABC 123"@0.9 gives "ABC123"; "XY12"@0.5, "Z9"@0.1 give "XY12"); when
\* none survives the reading is the variant's sentinel, not the empty join
C1_ReadingIsJoinedSurvivors ==
  (fPhase = "filtered" /\ FilterCropNonEmpty) =>
    /\ Len(Survivors(fRaw)) > 0 =>
         (fService = Described(fRaw) /\ fInteractive = Described(fRaw))
    /\ Len(Survivors(fRaw)) = 0 =>
         (fService = NoTextDetected
          /\ fInteractive \in {OcrFailedNoText, OcrFailedFiltered})
    /\ fRaw = ScenarioOne => fService = <<"A","B","C","1","2","3">>
    /\ fRaw = ScenarioTwo => fInteractive = <<"X","Y","1","2">>

C1_Witness ==
  /\ fPhase = "filtered" /\ FilterCropNonEmpty
  /\ Len(fRaw) = 2 /\ Len(Survivors(fRaw)) = 2
  /\ \E i \in 1..Len(fRaw[1].text) : ~isalnum(fRaw[1].text[i])
  /\ fService = Described(fRaw) /\ Len(fService) >= 3

AlnumOrSpace(p) == \A i \in 1..Len(p) : isalnum(p[i]) \/ p[i] = " "

\* C2: a reading returned by either variant is never the empty string: it is
\* one of the fixed sentinels or a non-empty string of alphanumeric
\* characters and spaces
C2_ReadingNeverEmpty ==
  fPhase \in {"filtered", "refiltered"} =>
    \A p \in {fService, fInteractive} :
      Len(p) > 0 /\ (IsSentinel(p) \/ AlnumOrSpace(p))

C2_Witness ==
  /\ fPhase = "filtered" /\ FilterCropNonEmpty
  /\ Len(fRaw) > 0
  /\ \A i \in 1..Len(fRaw) : fRaw[i].conf >= 20000 /\ Len(cleaned_text(fRaw[i].text)) = 0
  /\ fService = NoTextDetected /\ fInteractive = OcrFailedFiltered

\* C3: the padded and clamped rectangle, and the rows and columns actually
\* read, lie inside the image for every box and every padding
C3_CropInsideImage ==
  cPhase = "cropped" =>
    /\ 0 <= cCrop.bounds.y1_pad /\ cCrop.bounds.y2_pad <= cShape[1]
    /\ 0 <= cCrop.bounds.x1_pad /\ cCrop.bounds.x2_pad <= cShape[2]
    /\ 0 <= cCrop.rows[1] /\ cCrop.rows[2] <= cShape[1]
    /\ 0 <= cCrop.cols[1] /\ cCrop.cols[2] <= cShape[2]

C3_Witness ==
  /\ cPhase = "cropped" /\ cPad > 0
  /\ cBox[1] - cPad < 0 /\ cBox[4] + cPad > cShape[1]
  /\ cCrop.bounds.x1_pad = 0 /\ cCrop.bounds.y2_pad = cShape[1]
  /\ cCrop.size > 0

RemoveSpaces(p) == SelectSeq(p, LAMBDA c : c # " ")
HasSpace(p) == \E i \in 1..Len(p) : p[i] = " "

\* C4 as stated: a produced reading fed back as recognized text comes out
\* unchanged
C4_AsStated ==
  fPhase = "refiltered" =>
    (fService = fPrevService /\ fInteractive = fPrevInteractive)

\* C4 (amended): a produced reading fed back as one recognized span comes
\* out with its joining spaces removed, hence unchanged exactly when it
\* consists of a single token
C4_RefilterRemovesSpaces ==
  fPhase = "refiltered" =>
    /\ fService = RemoveSpaces(fPrevService)
    /\ fInteractive = RemoveSpaces(fPrevInteractive)
    /\ ~HasSpace(fPrevService) => fService = fPrevService
    /\ ~HasSpace(fPrevInteractive) => fInteractive = fPrevInteractive

C4_Witness ==
  /\ fPhase = "refiltered"
  /\ ~HasSpace(fPrevService) /\ Len(fPrevService) >= 2
  /\ fService = fPrevService /\ fInteractive = fPrevInteractive

TokenCount(p) == IF IsSentinel(p) THEN 0 ELSE 1 + Cardinality({i \in 1..Len(p) : p[i] = " "})
KeptCount(spans) ==
  Cardinality({i \in 1..Len(spans) :
                 spans[i].conf >= 20000 /\ \E j \in 1..Len(spans[i].text) : isalnum(spans[i].text[j])})

\* C5: the threshold is inclusive: every span with alphanumeric content and
\* confidence 0.2 or more contributes a token, every span below 0.2 none,
\* in both variants
C5_ThresholdInclusive ==
  (fPhase = "filtered" /\ FilterCropNonEmpty) =>
    /\ TokenCount(fService) = KeptCount(fRaw)
    /\ TokenCount(fInteractive) = KeptCount(fRaw)

C5_Witness ==
  /\ fPhase = "filtered" /\ FilterCropNonEmpty
  /\ Len(fRaw) = 2
  /\ fRaw[1].conf = 19999 /\ fRaw[2].conf = 20000
  /\ fRaw[1].text = <<"a">> /\ fRaw[2].text = <<"B">>
  /\ fService = <<"B">> /\ fInteractive = <<"B">>

\* the detector was called for request r and ranked no box at all
NoCandidates(r) ==
  \/ detOut[r] = "boxes" /\ Len(boxes[r]) = 0
  \/ detOut[r] = "no_candidates"

\* C6: a request whose image yields no detector candidate never calls the
\* recognizer and ends in the no-detection outcome (the 200 answer of the
\* service, the "No plate detected" text and detection-failed message of
\* the page)
C6_NoDetectionSkipsRecognizer ==
  \A r \in Reqs :
    NoCandidates(r) =>
      /\ ocrCalls[r] = 0
      /\ variant = "service" =>
           /\ pc[r] \in {"select", "done"}
           /\ pc[r] = "done" => (resp[r].status = 200 /\ DOMAIN resp[r].body = {"error"})
      /\ variant = "interactive" =>
           /\ box[r] = <<>>
           /\ pc[r] \in {"ui_select", "ui_time", "ui_show", "done"}
           /\ pc[r] # "ui_select" => plate[r] = NoPlateDetected
           /\ pc[r] = "done" => msgs[r] = <<"detection_failed">>

C6_Witness ==
  \E r \in Reqs :
    /\ NoCandidates(r) /\ pc[r] = "done" /\ detCalls[r] = 1 /\ ocrCalls[r] = 0
    /\ variant = "service" /\ resp[r].status = 200

\* C7: in the service a request without detector boxes is answered 200 with
\* an error field only, and has written no file
C7_NoPlateAnswer ==
  \A r \in Reqs :
    (variant = "service" /\ NoCandidates(r)) =>
      /\ pc[r] = "done" =>
           /\ resp[r].status = 200
           /\ DOMAIN resp[r].body = {"error"}
           /\ resp[r].body.error = "No number plate detected in image"
      /\ wrote[r] = {}
      /\ slip_file[r] = <<>>
      /\ \A n \in DOMAIN files : files[n].by # r

C7_Witness ==
  \E r \in Reqs :
    /\ variant = "service" /\ NoCandidates(r) /\ pc[r] = "done"
    /\ resp[r].status = 200 /\ wrote[r] = {}
    /\ \E q \in Reqs : q # r /\ wrote[q] # {}

\* the padded, clamped crop of request r has no pixels
CropCollapsed(r) == box[r] # <<>> /\ pc[r] = "done" /\ crop[r].size = 0

\* C8 as stated: a collapsed crop gives the reading "Crop Error" without a
\* recognizer call, and the request still persists a receipt carrying that
\* reading and returns its result
C8_AsStated ==
  \A r \in Reqs :
    CropCollapsed(r) =>
      /\ plate[r] = CropError
      /\ ocrCalls[r] = 0
      /\ slip_file[r] # <<>>
      /\ slip_file[r] \in wrote[r]
      /\ variant = "service" => (resp[r].status = 200 /\ "plate" \in DOMAIN resp[r].body)
      /\ variant = "interactive" => msgs[r][Len(msgs[r])] = "slip_shown"

Malformed(r) == upload[r] \in {"no_part", "empty_filename", "empty_bytes", "garbage"}

\* C9 as stated: the service answers every malformed upload with a 4xx status
\* and an error message, without calling the detector or the recognizer and
\* without writing a file
C9_AsStated ==
  \A r \in Reqs :
    (variant = "service" /\ pc[r] = "done" /\ Malformed(r)) =>
      /\ resp[r].status \in 400..499
      /\ "error" \in DOMAIN resp[r].body
      /\ detCalls[r] = 0 /\ ocrCalls[r] = 0
      /\ wrote[r] = {}

\* C10: the artifact files are written without any lock: a request at one of
\* its writes can always take it, whatever the other request is doing, and
\* every file holds what the request that wrote it last put there
C10_LastWriterWins ==
  variant = "service" =>
    /\ DOMAIN files = DOMAIN lastWriter
    /\ \A n \in DOMAIN files : files[n].by = lastWriter[n]
    /\ \A r \in Reqs : pc[r] = "save_anno" => ENABLED SaveAnnotated(r)
    /\ \A r \in Reqs : pc[r] = "save_crop" => ENABLED SaveCrop(r)

\* a finished request whose anno_url resolves to the other request's image
\* while its crop_url resolves to its own
C10_Witness ==
  \E r \in Reqs :
    /\ variant = "service" /\ pc[r] = "done"
    /\ "anno_url" \in DOMAIN resp[r].body
    /\ files[url_filename(resp[r].body.anno_url)].by # r
    /\ files[url_filename(resp[r].body.crop_url)].by = r

\* the service saved a slip for request r
SlipWritten(r) == variant = "service" /\ slip_file[r] # <<>>

\* readings the filter can give, with and without joining spaces
SamplePlates ==
  { NoTextDetected, <<"A","7">>, <<"A"," ","7">>, <<"A","B"," ","1","2">>,
    <<"A","B","1","2">>, <<"C","R","O","P">> }

\* C11: in the service the slip's file name is determined by the plate string
\* and the second of the entry time, and by nothing else: two requests with
\* the same plate and second name the same file, which then holds what the
\* later writer put there, and two requests that differ in either name
\* different files, each holding its own request's slip
C11_SlipNameKeyedByPlateAndSecond ==
  /\ \A r, q \in Reqs :
       (SlipWritten(r) /\ SlipWritten(q)) =>
         /\ (slip_file[r] = slip_file[q])
              <=> (plate[r] = plate[q] /\ entry_time[r] = entry_time[q])
         /\ slip_file[r] \in DOMAIN files
         /\ files[slip_file[r]].by = lastWriter[slip_file[r]]
         /\ files[slip_file[r]].rows = slip_rows(plate[r], entry_time[r])
         /\ slip_file[r] # slip_file[q] => files[slip_file[r]].by = r
  /\ (\A r \in Reqs : pc[r] = "idle") =>
       \A p1, p2 \in SamplePlates : \A t1, t2 \in 0..MaxClock :
         (slip_filename(p1, t1) = slip_filename(p2, t2)) <=> (p1 = p2 /\ t1 = t2)

\* two finished requests with the same plate and second: the slip_url of the
\* first resolves to the file the second wrote over it
C11_Witness ==
  \E r, q \in Reqs :
    /\ r # q /\ SlipWritten(r) /\ SlipWritten(q)
    /\ pc[r] = "done" /\ pc[q] = "done"
    /\ plate[r] = plate[q] /\ entry_time[r] = entry_time[q]
    /\ "slip_url" \in DOMAIN resp[r].body
    /\ files[url_filename(resp[r].body.slip_url)].by = q

\* C12 as stated: every receipt that was rendered, with the preferred or a
\* fallback font, carries the four rows Vehicle Plate (the reading), Entry
\* Time (day-month-year hour:minute:second of the entry time), Parking Fee
\* (the fixed amount) and Status ("ACTIVE")
C12_AsStated ==
  \A n \in DOMAIN files :
    files[n].kind = "slip" =>
      LET rows == files[n].rows
          w == files[n].by
      IN /\ Len(rows) = 4
         /\ rows[1] = <<"Vehicle Plate", plate[w]>>
         /\ rows[2][1] = "Entry Time"
         /\ rows[2][2] \in {strftime_row(entry_time[w]), strftime_json(entry_time[w])}
         /\ rows[3] = <<"Parking Fee", Fee>>
         /\ rows[4] = <<"Status", Active>>

\* the padding of the variant that is running
VariantPad == IF variant = "service" THEN pad ELSE padding

\* C13: whenever the detector ranks one or more boxes, the box selected is
\* the first of them whatever the others are, and the crop handed to the
\* recognizer and the annotated and cropped images that are saved are made
\* from that box alone
C13_FirstBoxOnly ==
  /\ \A r \in Reqs :
       /\ pc[r] \in {"crop", "ui_crop"} =>
            (Len(boxes[r]) > 0 /\ box[r] = boxes[r][1])
       /\ (box[r] # <<>> /\ pc[r] \notin {"crop", "ui_crop"}) =>
            crop[r] = crop_of(PipeShape, box[r], VariantPad)
  /\ \A n \in DOMAIN files :
       files[n].kind \in {"annotated", "crop"} => files[n].box = box[files[n].by]

\* the detector ranked a box outside the image first and another box
\* second; the first was selected and the request went on with it
C13_Witness ==
  \E r, q \in Reqs :
    /\ pc[r] = "crop" /\ Len(boxes[r]) >= 2
    /\ boxes[r][1] # boxes[r][2] /\ box[r] = boxes[r][1]
    /\ pc[q] = "done" /\ box[q] = <<6, 6, 7, 7>>
    /\ AnnotatedName \in DOMAIN files /\ files[AnnotatedName].by = q

\* the last two characters of a text: the second of a formatted time
LastTwo(t) == SubSeq(t, Len(t) - 1, Len(t))
\* the second in a slip's file name, just before ".png"
SecondInName(f) == SubSeq(f, Len(f) - 5, Len(f) - 4)

\* the clock has been read for request r only once recognition is over
TimeReadInOrder(r) ==
  entry_time[r] # -1 =>
    pc[r] \in (IF variant = "service" THEN {"respond", "done"}
               ELSE {"ui_show", "ui_slip", "ui_show_slip", "done"})

\* what request r shows and what it names carry the one value that was read
TimeShownIsTimeNamed(r) ==
  /\ (variant = "service" /\ "slip_url" \in DOMAIN resp[r].body) =>
       /\ resp[r].body.entry_time = strftime_json(entry_time[r])
       /\ SecondInName(resp[r].body.slip_url) = LastTwo(resp[r].body.entry_time)
       /\ SecondInName(slip_file[r]) = two_digits(entry_time[r])
  /\ (slip_file[r] # <<>> /\ files[slip_file[r]].by = r) =>
       LastTwo(files[slip_file[r]].rows[2][2]) = two_digits(entry_time[r])
  /\ (variant = "interactive" /\ "file_name" \in DOMAIN resp[r].body) =>
       resp[r].body.file_name = download_name(plate[r], entry_time[r])

\* a step reads the clock for request r only at the one place after
\* recognition, takes the current time, and never replaces a value read
ClockReadOnce(r) ==
  entry_time'[r] # entry_time[r] =>
    /\ entry_time[r] = -1
    /\ pc[r] \in {"slip", "ui_time"}
    /\ entry_time'[r] = now

\* C14: each request reads the clock at most once, after recognition, and
\* the entry time it shows (response field, receipt row) and the time in
\* the name of its slip are that one value, so they never disagree
C14_OneClockReadPerRequest ==
  /\ [](\A r \in Reqs : TimeReadInOrder(r) /\ TimeShownIsTimeNamed(r))
  /\ [][\A r \in Reqs : ClockReadOnce(r)]_vars

\* the clock moved on between the read and the response: the response and
\* the file name still show the second that was read
C14_Witness ==
  \E r \in Reqs :
    /\ variant = "service" /\ pc[r] = "done" /\ "slip_url" \in DOMAIN resp[r].body
    /\ entry_time[r] = 0 /\ now = 1
    /\ LastTwo(resp[r].body.entry_time) = <<"0","0">>
    /\ SecondInName(resp[r].body.slip_url) = <<"0","0">>

\* the page's recognizer call for request r came back with a result
RecognizerReturned(r) ==
  /\ variant = "interactive" /\ ocrCalls[r] = 1
  /\ pc[r] \in {"ui_time", "ui_show", "done"}
  /\ ~\E i \in 1..Len(msgs[r]) : msgs[r][i] = "processing_error"

\* C15: in the page a recognizer result without any item ends in the plate
\* text "OCR failed (EasyOCR found no text)" and its own error message, a
\* result with items of which none survives the filter ends in "OCR failed
\* (Low confidence or non-alphanumeric)" and its own warning, and neither
\* text arises in the other situation
C15_EmptyAndFilteredDistinct ==
  \A r \in Reqs :
    RecognizerReturned(r) =>
      /\ raw[r] = <<>> <=> plate[r] = OcrFailedNoText
      /\ (raw[r] # <<>> /\ Len(Survivors(raw[r])) = 0) <=> plate[r] = OcrFailedFiltered
      /\ (pc[r] = "done" /\ raw[r] = <<>>) =>
           msgs[r] = <<"ocr_no_text", "slip_unavailable">>
      /\ (pc[r] = "done" /\ raw[r] # <<>> /\ Len(Survivors(raw[r])) = 0) =>
           msgs[r] = <<"ocr_filtered", "slip_unavailable">>

\* one finished upload of each kind
C15_Witness ==
  \E r, q \in Reqs :
    /\ RecognizerReturned(r) /\ RecognizerReturned(q)
    /\ pc[r] = "done" /\ pc[q] = "done"
    /\ raw[r] = <<>> /\ plate[r] = OcrFailedNoText /\ msgs[r][1] = "ocr_no_text"
    /\ raw[q] # <<>> /\ plate[q] = OcrFailedFiltered /\ msgs[q][1] = "ocr_filtered"

\* request r got as far as saving its receipt and the save failed
SaveFailed(r) ==
  /\ pc[r] = "done"
  /\ \/ variant = "service" /\ entry_time[r] # -1 /\ slip_file[r] = <<>>
     \/ /\ variant = "interactive"
        /\ \E i \in 1..Len(msgs[r]) : msgs[r][i] = "slip_save_failed"

\* C16 as stated: a request whose receipt could not be saved ends in an
\* outcome of its own, neither an input error nor the no-detection answer,
\* that still reports the plate reading, and never in a success that names
\* a slip
C16_AsStated ==
  \A r \in Reqs :
    SaveFailed(r) =>
      /\ variant = "service" =>
           /\ resp[r].status # 400 /\ resp[r] # no_plate_response
           /\ "slip_url" \notin DOMAIN resp[r].body
           /\ "plate" \in DOMAIN resp[r].body
           /\ resp[r].body.plate = plate[r]
      /\ variant = "interactive" =>
           /\ msgs[r][1] = "success"
           /\ msgs[r][Len(msgs[r])] = "slip_failed"
           /\ ~\E i \in 1..Len(msgs[r]) : msgs[r][i] = "slip_shown"

\* the place of each step in the order decode, detect, crop, recognize,
\* render and persist, respond
StageRank(l) ==
  CASE l = "idle" -> 0
    [] l \in {"check_part", "ui_gate"} -> 1
    [] l = "check_name" -> 2
    [] l \in {"decode", "ui_decode"} -> 3
    [] l \in {"detect", "ui_detect"} -> 4
    [] l \in {"select", "ui_select"} -> 5
    [] l \in {"crop", "ui_crop"} -> 6
    [] l \in {"ocr", "ui_ocr"} -> 7
    [] l \in {"save_anno", "ui_time"} -> 8
    [] l \in {"save_crop", "ui_show"} -> 9
    [] l \in {"slip", "ui_slip"} -> 10
    [] l \in {"respond", "ui_show_slip"} -> 11
    [] l = "done" -> 12

\* what has run for request r fits the stage it is at
StagesInOrder(r) ==
  /\ detCalls[r] <= 1 /\ ocrCalls[r] <= 1
  /\ detCalls[r] = 1 => StageRank(pc[r]) > 4
  /\ box[r] # <<>> => detCalls[r] = 1
  /\ ocrCalls[r] = 1 =>
       (StageRank(pc[r]) > 7 /\ box[r] # <<>> /\ crop[r].size > 0)
  /\ slip_file[r] # <<>> =>
       (StageRank(pc[r]) > 10 /\ ocrCalls[r] = 1 /\ plate[r] # <<>>)
  /\ resp[r] # NoResponse => pc[r] = "done"

\* a step of request r moves it to a later stage and calls the detector and
\* the recognizer only from their own stages
StepForward(r) ==
  /\ pc'[r] # pc[r] => StageRank(pc'[r]) > StageRank(pc[r])
  /\ detCalls'[r] # detCalls[r] => StageRank(pc[r]) = 4
  /\ ocrCalls'[r] # ocrCalls[r] => StageRank(pc[r]) = 7

\* C17: within a request the stages run forward only and at most once
\* each: the detector and the recognizer are called at most once, the
\* recognizer only with a selected box and a crop that has pixels, and the
\* receipt is rendered only after recognition
C17_StagesForwardOnce ==
  /\ [](\A r \in Reqs : StagesInOrder(r))
  /\ [][\A r \in Reqs : StepForward(r)]_vars

\* a request of the service that went through every stage
C17_Witness ==
  \E r \in Reqs :
    /\ variant = "service" /\ pc[r] = "done"
    /\ detCalls[r] = 1 /\ ocrCalls[r] = 1
    /\ wrote[r] = {AnnotatedName, CropName, slip_file[r]}
    /\ slip_file[r] # <<>> /\ "slip_url" \in DOMAIN resp[r].body

\* the page's recognizer returned at least one span that survives the filter
RealReading(r) == RecognizerReturned(r) /\ Len(Survivors(raw[r])) > 0

\* the plate text of request r is one of the diagnostic values
Diagnostic(r) ==
  plate[r] \in {NoPlateDetected, CropError, OcrFailedNoText, OcrFailedFiltered,
                ProcessingError}

\* create_parking_slip was called for request r
SlipAttempted(r) ==
  \/ slip_file[r] # <<>>
  \/ \E i \in 1..Len(msgs[r]) : msgs[r][i] = "slip_save_failed"

\* C18 as stated: in the page the slip is generated for every plate text
\* built from at least one surviving token, and for no diagnostic value
C18_AsStated ==
  \A r \in Reqs :
    (variant = "interactive" /\ pc[r] = "done") =>
      /\ RealReading(r) => SlipAttempted(r)
      /\ Diagnostic(r) => ~SlipAttempted(r)

\* C19: for every recognizer result with at least one surviving span the
\* service's extract_text and the page's detect_and_ocr give the same plate
\* string; when nothing survives each gives a sentinel of its own, and
\* these differ
C19_VariantsAgreeOnContent ==
  (fPhase = "filtered" /\ FilterCropNonEmpty) =>
    /\ Len(Survivors(fRaw)) > 0 =>
         (fService = fInteractive /\ ~IsSentinel(fService))
    /\ Len(Survivors(fRaw)) = 0 =>
         (fService # fInteractive /\ IsSentinel(fService) /\ IsSentinel(fInteractive))

\* a survivor next to a span below the threshold that has content
C19_Witness ==
  /\ fPhase = "filtered" /\ FilterCropNonEmpty
  /\ fRaw = ScenarioTwo
  /\ fService = <<"X","Y","1","2">> /\ fInteractive = fService

\* a text that writes a number: an optional sign, digits with at most one
\* point, an optional exponent; spaces around it do not count
IsNumber(t) ==
  LET u == unsigned(strip(t))
      e == ExpPos(u)
  IN IF e = 0 THEN IsMantissa(u)
     ELSE IsMantissa(SubSeq(u, 1, e - 1)) /\ IsExponent(SubSeq(u, e + 1, Len(u)))

\* the request has a parameter the claim calls invalid
InvalidParams ==
  \/ wEndpoint \in {"current", "forecast"} /\ falsy(wArgs.city)
  \/ /\ wEndpoint = "coordinates"
     /\ \/ falsy(wArgs.lat) \/ falsy(wArgs.lon)
        \/ ~IsNumber(wArgs.lat.text) \/ ~IsNumber(wArgs.lon.text)
  \/ units_of(wArgs) \notin AllowedUnits

\* the upstream request or the formatting of its answer failed
UpstreamFailed == wUpstream \notin {"none", "json"}

\* C20 as stated: in the weather proxy a request with a missing city, a
\* missing or non-numeric lat or lon, or units outside metric, imperial and
\* kelvin is answered 400 without any upstream request; every other request
\* makes exactly one upstream request, and a failure of it or of the
\* formatting is answered 500 with success = false
C20_AsStated ==
  wPc \in {"call", "format", "done"} =>
    /\ InvalidParams => (wPc = "done" /\ wResp.status = 400 /\ wCalls = 0)
    /\ (~InvalidParams /\ wPc = "done") =>
         /\ wCalls = 1
         /\ UpstreamFailed => (wResp.status = 500 /\ wResp.body.success = FALSE)
         /\ ~UpstreamFailed => (wResp.status = 200 /\ wResp.body.success = TRUE)

\* the same with "non-numeric" read as "refused by float()": this is what
\* the handlers do for every request
ValidationPrecedesUpstream ==
  LET refused ==
        \/ wEndpoint \in {"current", "forecast"} /\ falsy(wArgs.city)
        \/ /\ wEndpoint = "coordinates"
           /\ \/ falsy(wArgs.lat) \/ falsy(wArgs.lon)
              \/ ~float(wArgs.lat.text).ok \/ ~float(wArgs.lon.text).ok
        \/ units_of(wArgs) \notin AllowedUnits
  IN wPc \in {"call", "format", "done"} =>
       /\ refused => (wPc = "done" /\ wResp.status = 400 /\ wCalls = 0)
       /\ (~refused /\ wPc = "done") =>
            /\ wCalls = 1
            /\ UpstreamFailed => (wResp.status = 500 /\ wResp.body.success = FALSE)
            /\ ~UpstreamFailed => (wResp.status = 200 /\ wResp.body.success = TRUE)

====
